---------------------------- MODULE Spec2Model ----------------------------
(***************************************************************************)
(* A model of the deck-of-cards tool server (src/main.py): the ten tools,  *)
(* their local validation, the request each one builds for the remote deck *)
(* service, the client _api_get and the reshaping of the remote JSON.      *)
(*                                                                         *)
(* Python values are tagged records: None, PyStr (a sequence of one-       *)
(* character strings), PyInt, PyBool, PyList, PyDict (a function).         *)
(* Every tool is split at its only suspension point, the await of          *)
(* _api_get: the part before it is the operator named after the tool, the  *)
(* part after it is <tool>_return.                                         *)
(***************************************************************************)
EXTENDS Integers, Sequences, FiniteSets, TLC

VARIABLES
    pc,         \* call -> "idle" | "awaiting" | "replied" | "returned" | "failed"
    op,         \* call -> name of the tool invoked ("" while idle)
    args,       \* call -> the keyword arguments of the invocation
    request,    \* call -> None, or the GET the call has issued
    attempts,   \* call -> number of GETs the call has issued so far
    response,   \* call -> None, or what the remote round trip ended with
    result,     \* call -> None, or the value the tool returned
    error,      \* call -> None, or the exception the tool raised
    remote,     \* the state the remote deck service holds
    client      \* position of the calling script (round-trip scenarios)

vars == <<pc, op, args, request, attempts, response, result, error, remote, client>>

callVars == <<pc, op, args, request, attempts, response, result, error>>

-----------------------------------------------------------------------------
(* Python values *)

None == [t |-> "None"]
PyStr(s) == [t |-> "str", v |-> s]
PyInt(n) == [t |-> "int", v |-> n]
PyBool(b) == [t |-> "bool", v |-> b]
PyList(l) == [t |-> "list", v |-> l]
PyDict(f) == [t |-> "dict", v |-> f]

EmptyDict == PyDict(<<>>)

\* Python truthiness, as used by `not x` and `if x`.
Truthy(x) ==
    CASE x.t = "None" -> FALSE
      [] x.t = "str"  -> Len(x.v) > 0
      [] x.t = "list" -> Len(x.v) > 0
      [] x.t = "int"  -> x.v # 0
      [] x.t = "bool" -> x.v
      [] x.t = "dict" -> DOMAIN x.v # {}

\* dict.get(key, default)
Get(d, key, default) == IF key \in DOMAIN d.v THEN d.v[key] ELSE default

\* a keyword argument, or the default the signature gives it
Param(a, name, default) == IF name \in DOMAIN a THEN a[name] ELSE default

-----------------------------------------------------------------------------
(* Strings are sequences of characters *)

Lowercase == <<"a","b","c","d","e","f","g","h","i","j","k","l","m",
               "n","o","p","q","r","s","t","u","v","w","x","y","z">>
Uppercase == <<"A","B","C","D","E","F","G","H","I","J","K","L","M",
               "N","O","P","Q","R","S","T","U","V","W","X","Y","Z">>
Digits == {"0","1","2","3","4","5","6","7","8","9"}
Whitespace == {" ", "\t", "\n"}

Range(s) == {s[i] : i \in DOMAIN s}

CharUpper(ch) ==
    IF \E i \in DOMAIN Lowercase : Lowercase[i] = ch
    THEN Uppercase[CHOOSE i \in DOMAIN Lowercase : Lowercase[i] = ch]
    ELSE ch

CharLower(ch) ==
    IF \E i \in DOMAIN Uppercase : Uppercase[i] = ch
    THEN Lowercase[CHOOSE i \in DOMAIN Uppercase : Uppercase[i] = ch]
    ELSE ch

\* str.upper() and str.lower()
Upper(s) == [i \in DOMAIN s |-> CharUpper(s[i])]
Lower(s) == [i \in DOMAIN s |-> CharLower(s[i])]

\* str.lstrip(chars) and str.strip()
RECURSIVE LStrip(_, _)
LStrip(s, chars) ==
    IF s # <<>> /\ Head(s) \in chars THEN LStrip(Tail(s), chars) ELSE s

RECURSIVE RStrip(_, _)
RStrip(s, chars) ==
    IF s # <<>> /\ s[Len(s)] \in chars
    THEN RStrip(SubSeq(s, 1, Len(s) - 1), chars)
    ELSE s

Strip(s) == RStrip(LStrip(s, Whitespace), Whitespace)

\* sep.join(parts)
RECURSIVE Join(_, _)
Join(sep, parts) ==
    IF parts = <<>> THEN <<>>
    ELSE IF Len(parts) = 1 THEN parts[1]
    ELSE LET half == Len(parts) \div 2
         IN  Join(sep, SubSeq(parts, 1, half)) \o sep \o Join(sep, SubSeq(parts, half + 1, Len(parts)))

Slash == <<"/">>
Comma == <<",">>

-----------------------------------------------------------------------------
(* What a piece of code ends with: an exception, a value, or the await of  *)
(* the remote GET.                                                         *)

ToolError(msg) == [type |-> "ToolError", msg |-> msg]
ToolErrorAbout(msg, raw) == [type |-> "ToolError", msg |-> msg, about |-> raw]

Raised(exc) == [kind |-> "raise", exc |-> exc]
Returned(v) == [kind |-> "return", value |-> v]
Awaited(path, params) == [kind |-> "await", path |-> path, params |-> params]

-----------------------------------------------------------------------------
(* src/main.py: helpers *)

\* one element standing for the text of the base URL
BASE_URL == <<"https://deckofcardsapi.com/api/deck">>

allowed_values == {"A", "2", "3", "4", "5", "6", "7", "8", "9", "0", "J", "Q", "K"}
allowed_suits == {"S", "D", "C", "H"}

CardCodeLen == 2

\* the body of the for loop with the code trimmed but not upper-cased
_normalize_cards_body_no_upper(raw_code) ==
    LET code == Strip(raw_code.v)
    IN  IF Len(code) # CardCodeLen
        THEN Raised(ToolErrorAbout("Invalid card code: must be exactly two characters.", raw_code))
        ELSE IF code[1] \notin allowed_values \/ code[2] \notin allowed_suits
        THEN Raised(ToolErrorAbout("Invalid card code: value/suit not allowed.", raw_code))
        ELSE Returned(PyStr(code))

\* the body of the for loop of _normalize_cards for one raw_code: the
\* exception it raises, or the code it appends to normalized_cards
_normalize_cards_body(raw_code) ==
    LET code == Upper(Strip(raw_code.v))
    IN  IF Len(code) # CardCodeLen
        THEN Raised(ToolErrorAbout("Invalid card code: must be exactly two characters.", raw_code))
        ELSE IF code[1] \notin allowed_values \/ code[2] \notin allowed_suits
        THEN Raised(ToolErrorAbout("Invalid card code: value/suit not allowed.", raw_code))
        ELSE Returned(PyStr(code))

\* the loop runs in order and ends at the first raw_code whose body raises
_normalize_cards(cards) ==
    IF ~Truthy(cards) THEN Returned(PyList(<<>>))
    ELSE IF \A i \in DOMAIN cards.v : _normalize_cards_body(cards.v[i]).kind = "return"
    THEN Returned(PyList([i \in DOMAIN cards.v |-> _normalize_cards_body(cards.v[i]).value]))
    ELSE _normalize_cards_body(cards.v[
             CHOOSE i \in DOMAIN cards.v :
                 /\ _normalize_cards_body(cards.v[i]).kind = "raise"
                 /\ \A j \in 1..(i - 1) : _normalize_cards_body(cards.v[j]).kind = "return"])

_format_cards(cards) ==
    IF ~Truthy(cards) THEN PyList(<<>>)
    ELSE PyList([i \in DOMAIN cards.v |->
            PyDict([k \in {"code", "value", "suit", "image"} |-> Get(cards.v[i], k, None)])])

_deck_summary(data) ==
    LET summary == [k \in {"deck_id", "remaining", "shuffled"} |-> Get(data, k, None)]
    IN  IF "deck_count" \in DOMAIN data.v
        THEN PyDict(summary @@ ("deck_count" :> data.v["deck_count"]))
        ELSE PyDict(summary)

-----------------------------------------------------------------------------
(* src/main.py: _api_get *)

\* the classes of httpx's exception hierarchy the handlers name, and the
\* concrete exceptions client.get and raise_for_status raise
Superclasses(cls) ==
    CASE cls = "HTTPStatusError"  -> {"HTTPStatusError", "HTTPError"}
      [] cls = "ConnectError"     -> {"ConnectError", "TransportError", "HTTPError"}
      [] cls = "ReadError"        -> {"ReadError", "TransportError", "HTTPError"}
      [] cls = "ConnectTimeout"   -> {"ConnectTimeout", "TimeoutException", "TransportError", "HTTPError"}
      [] cls = "ReadTimeout"      -> {"ReadTimeout", "TimeoutException", "TransportError", "HTTPError"}

\* the except clauses with the general HTTPError clause ahead of the timeout clause
ApiGetHandlers_swapped ==
    << [catches |-> "HTTPStatusError",  msg |-> "Deck of Cards API returned HTTP <status> for <url>"],
       [catches |-> "HTTPError",        msg |-> "Unable to reach the Deck of Cards API: <exc>"],
       [catches |-> "TimeoutException", msg |-> "Deck of Cards API did not respond in time."] >>

\* the except clauses of _api_get, in the order the code lists them
ApiGetHandlers ==
    << [catches |-> "HTTPStatusError",  msg |-> "Deck of Cards API returned HTTP <status> for <url>"],
       [catches |-> "TimeoutException", msg |-> "Deck of Cards API did not respond in time."],
       [catches |-> "HTTPError",        msg |-> "Unable to reach the Deck of Cards API: <exc>"] >>

\* the request _api_get sends for (path, params)
_api_get_request(path, params) ==
    [url |-> BASE_URL \o Slash \o LStrip(path, {"/"}), path |-> path, params |-> params]

HTTPStatusOK(status) == 200 <= status /\ status <= 299

\* what the try block ends with: the exception raised in it, or "" for none
ApiGetRaisedInTry(resp) ==
    IF resp.exc # "" THEN resp.exc
    ELSE IF ~HTTPStatusOK(resp.status) THEN "HTTPStatusError"
    ELSE ""

\* _api_get from the point the GET has ended with resp: a transport exception
\* (resp.exc), or a status and a body (None when the body is not JSON)
_api_get(resp) ==
    LET exc == ApiGetRaisedInTry(resp)
        matching == {i \in DOMAIN ApiGetHandlers : ApiGetHandlers[i].catches \in Superclasses(exc)}
        first == CHOOSE i \in matching : \A j \in matching : i <= j
        data == resp.body
    IN  IF exc # ""
        THEN Raised(ToolError(ApiGetHandlers[first].msg))
        ELSE IF data = None
        THEN Raised(ToolError("Deck of Cards API returned invalid JSON."))
        ELSE IF Get(data, "success", None) = PyBool(FALSE)
        THEN IF Truthy(Get(data, "error", None))
             THEN Raised(ToolErrorAbout("<data.error>", Get(data, "error", None)))
             ELSE Raised(ToolError("Deck of Cards API reported an error."))
        ELSE Returned(data)

-----------------------------------------------------------------------------
(* src/main.py: the ten tools up to their await of _api_get *)

MinDeckCount == 1
MaxDeckCount == 20
MinCount == 1
MaxCount == 52

S_new == <<"n","e","w">>
S_shuffle == <<"s","h","u","f","f","l","e">>
S_draw == <<"d","r","a","w">>
S_pile == <<"p","i","l","e">>
S_add == <<"a","d","d">>
S_list == <<"l","i","s","t">>
S_return == <<"r","e","t","u","r","n">>
S_top == <<"t","o","p">>
S_bottom == <<"b","o","t","t","o","m">>
S_random == <<"r","a","n","d","o","m">>
S_true == <<"t","r","u","e">>

\* ",".join(normalized_cards)
JoinCodes(normalized_cards) ==
    PyStr(Join(Comma, [i \in DOMAIN normalized_cards.v |-> normalized_cards.v[i].v]))

\* create_deck without the upper limit on deck_count
create_deck_no_upper_limit(a) ==
    LET deck_count == Param(a, "deck_count", PyInt(1))
    IN  IF deck_count.v < MinDeckCount
        THEN Raised(ToolError("Deck count must be between 1 and 20."))
        ELSE Awaited(S_new \o Slash, PyDict("deck_count" :> deck_count))

create_deck(a) ==
    LET deck_count == Param(a, "deck_count", PyInt(1))
    IN  IF deck_count.v < MinDeckCount \/ deck_count.v > MaxDeckCount
        THEN Raised(ToolError("Deck count must be between 1 and 20."))
        ELSE Awaited(S_new \o Slash, PyDict("deck_count" :> deck_count))

create_partial_deck(a) ==
    LET cards == a.cards
        normalized == _normalize_cards(cards)
    IN  IF ~Truthy(cards)
        THEN Raised(ToolError("Provide at least one card code to build a partial deck."))
        ELSE IF normalized.kind = "raise" THEN normalized
        ELSE Awaited(S_new \o Slash \o S_shuffle \o Slash,
                     PyDict("cards" :> JoinCodes(normalized.value)))

shuffle_deck(a) ==
    LET deck_id == a.deck_id
        shuffle_remaining_only == Param(a, "shuffle_remaining_only", PyBool(FALSE))
    IN  IF ~Truthy(deck_id)
        THEN Raised(ToolError("A deck_id is required to shuffle a deck."))
        ELSE Awaited(deck_id.v \o Slash \o S_shuffle \o Slash,
                     IF Truthy(shuffle_remaining_only)
                     THEN PyDict("remaining" :> PyStr(S_true))
                     ELSE None)

\* draw_cards without its range check on count
draw_cards_unchecked_count(a) ==
    LET deck_id == a.deck_id
        count == Param(a, "count", PyInt(1))
    IN  IF ~Truthy(deck_id)
        THEN Raised(ToolError("A deck_id is required to draw cards."))
        ELSE Awaited(deck_id.v \o Slash \o S_draw \o Slash, PyDict("count" :> count))

draw_cards(a) ==
    LET deck_id == a.deck_id
        count == Param(a, "count", PyInt(1))
    IN  IF ~Truthy(deck_id)
        THEN Raised(ToolError("A deck_id is required to draw cards."))
        ELSE IF count.v < MinCount \/ count.v > MaxCount
        THEN Raised(ToolError("Count must be between 1 and 52."))
        ELSE Awaited(deck_id.v \o Slash \o S_draw \o Slash, PyDict("count" :> count))

get_deck_state(a) ==
    LET deck_id == a.deck_id
    IN  IF ~Truthy(deck_id)
        THEN Raised(ToolError("A deck_id is required to check deck state."))
        ELSE Awaited(deck_id.v \o Slash, None)

add_to_pile(a) ==
    LET deck_id == a.deck_id
        pile_name == a.pile_name
        cards == a.cards
        normalized == _normalize_cards(cards)
    IN  IF ~Truthy(deck_id)
        THEN Raised(ToolError("A deck_id is required to add cards to a pile."))
        ELSE IF ~Truthy(pile_name)
        THEN Raised(ToolError("A pile_name is required."))
        ELSE IF ~Truthy(cards)
        THEN Raised(ToolError("Provide at least one card code to add to the pile."))
        ELSE IF normalized.kind = "raise" THEN normalized
        ELSE Awaited(deck_id.v \o Slash \o S_pile \o Slash \o pile_name.v \o Slash \o S_add \o Slash,
                     PyDict("cards" :> JoinCodes(normalized.value)))

list_pile_cards(a) ==
    LET deck_id == a.deck_id
        pile_name == a.pile_name
    IN  IF ~Truthy(deck_id)
        THEN Raised(ToolError("A deck_id is required to inspect a pile."))
        ELSE IF ~Truthy(pile_name)
        THEN Raised(ToolError("A pile_name is required."))
        ELSE Awaited(deck_id.v \o Slash \o S_pile \o Slash \o pile_name.v \o Slash \o S_list \o Slash,
                     None)

shuffle_pile(a) ==
    LET deck_id == a.deck_id
        pile_name == a.pile_name
    IN  IF ~Truthy(deck_id)
        THEN Raised(ToolError("A deck_id is required to shuffle a pile."))
        ELSE IF ~Truthy(pile_name)
        THEN Raised(ToolError("A pile_name is required."))
        ELSE Awaited(deck_id.v \o Slash \o S_pile \o Slash \o pile_name.v \o Slash \o S_shuffle \o Slash,
                     None)

\* return_cards that always requests the deck's return path
return_cards_deck_path_only(a) ==
    LET deck_id == a.deck_id
        cards == Param(a, "cards", None)
        normalized == _normalize_cards(cards)
    IN  IF ~Truthy(deck_id)
        THEN Raised(ToolError("A deck_id is required to return cards."))
        ELSE IF normalized.kind = "raise" THEN normalized
        ELSE Awaited(deck_id.v \o Slash \o S_return \o Slash,
                     IF Truthy(normalized.value)
                     THEN PyDict("cards" :> JoinCodes(normalized.value))
                     ELSE None)

return_cards(a) ==
    LET deck_id == a.deck_id
        pile_name == Param(a, "pile_name", None)
        cards == Param(a, "cards", None)
        normalized == _normalize_cards(cards)
    IN  IF ~Truthy(deck_id)
        THEN Raised(ToolError("A deck_id is required to return cards."))
        ELSE IF normalized.kind = "raise" THEN normalized
        ELSE Awaited(IF Truthy(pile_name)
                     THEN deck_id.v \o Slash \o S_pile \o Slash \o pile_name.v \o Slash \o S_return \o Slash
                     ELSE deck_id.v \o Slash \o S_return \o Slash,
                     IF Truthy(normalized.value)
                     THEN PyDict("cards" :> JoinCodes(normalized.value))
                     ELSE None)

\* valid_positions with the top of the pile only
valid_positions_top_only == {S_top}

valid_positions == {S_top, S_bottom, S_random}

\* draw_from_pile without the check that explicit cards are drawn from the top
draw_from_pile_cards_anywhere(a) ==
    LET deck_id == a.deck_id
        pile_name == a.pile_name
        cards == Param(a, "cards", None)
        count == Param(a, "count", None)
        position == Param(a, "position", PyStr(S_top))
        normalized_position == Lower(position.v)
        normalized == _normalize_cards(cards)
        params == IF Truthy(cards) THEN PyDict("cards" :> JoinCodes(normalized.value))
                  ELSE IF count # None THEN PyDict("count" :> count)
                  ELSE EmptyDict
        path_parts == IF normalized_position \in {S_bottom, S_random}
                      THEN <<deck_id.v, S_pile, pile_name.v, S_draw, normalized_position>>
                      ELSE <<deck_id.v, S_pile, pile_name.v, S_draw>>
    IN  IF ~Truthy(deck_id)
        THEN Raised(ToolError("A deck_id is required to draw from a pile."))
        ELSE IF ~Truthy(pile_name)
        THEN Raised(ToolError("A pile_name is required."))
        ELSE IF normalized_position \notin valid_positions
        THEN Raised(ToolError("Position must be one of: 'top', 'bottom', or 'random'."))
        ELSE IF (cards = None \/ Len(cards.v) = 0) /\ count = None
        THEN Raised(ToolError("Provide either specific card codes or a count."))
        ELSE IF cards # None /\ count # None
        THEN Raised(ToolError("Provide either specific card codes or a count, not both."))
        ELSE IF Truthy(cards) /\ normalized.kind = "raise"
        THEN normalized
        ELSE IF ~Truthy(cards) /\ count # None /\ (count.v < MinCount \/ count.v > MaxCount)
        THEN Raised(ToolError("Count must be between 1 and 52."))
        ELSE IF ~Truthy(cards) /\ count = None /\ normalized_position # S_top
        THEN Raised(ToolError("Specify count when drawing from the bottom or randomly."))
        ELSE Awaited(Join(Slash, path_parts) \o Slash,
                     IF Truthy(params) THEN params ELSE None)

draw_from_pile(a) ==
    LET deck_id == a.deck_id
        pile_name == a.pile_name
        cards == Param(a, "cards", None)
        count == Param(a, "count", None)
        position == Param(a, "position", PyStr(S_top))
        normalized_position == Lower(position.v)
        normalized == _normalize_cards(cards)
        params == IF Truthy(cards) THEN PyDict("cards" :> JoinCodes(normalized.value))
                  ELSE IF count # None THEN PyDict("count" :> count)
                  ELSE EmptyDict
        path_parts == IF normalized_position \in {S_bottom, S_random}
                      THEN <<deck_id.v, S_pile, pile_name.v, S_draw, normalized_position>>
                      ELSE <<deck_id.v, S_pile, pile_name.v, S_draw>>
    IN  IF ~Truthy(deck_id)
        THEN Raised(ToolError("A deck_id is required to draw from a pile."))
        ELSE IF ~Truthy(pile_name)
        THEN Raised(ToolError("A pile_name is required."))
        ELSE IF normalized_position \notin valid_positions
        THEN Raised(ToolError("Position must be one of: 'top', 'bottom', or 'random'."))
        ELSE IF (cards = None \/ Len(cards.v) = 0) /\ count = None
        THEN Raised(ToolError("Provide either specific card codes or a count."))
        ELSE IF cards # None /\ count # None
        THEN Raised(ToolError("Provide either specific card codes or a count, not both."))
        ELSE IF Truthy(cards) /\ normalized_position # S_top
        THEN Raised(ToolError("Drawing specific cards is only supported from the top of the pile."))
        ELSE IF Truthy(cards) /\ normalized.kind = "raise"
        THEN normalized
        ELSE IF ~Truthy(cards) /\ count # None /\ (count.v < MinCount \/ count.v > MaxCount)
        THEN Raised(ToolError("Count must be between 1 and 52."))
        ELSE IF ~Truthy(cards) /\ count = None /\ normalized_position # S_top
        THEN Raised(ToolError("Specify count when drawing from the bottom or randomly."))
        ELSE Awaited(Join(Slash, path_parts) \o Slash,
                     IF Truthy(params) THEN params ELSE None)

-----------------------------------------------------------------------------
(* src/main.py: the ten tools from the value _api_get returned to them *)

\* data.get("piles", {}).get(pile_name, {})
PileInfo(data, pile_name) == Get(Get(data, "piles", EmptyDict), pile_name.v, EmptyDict)

\* {**summary, key: value}
With(d, key, value) == PyDict((key :> value) @@ d.v)

create_deck_return(a, data) == _deck_summary(data)

create_partial_deck_return(a, data) == _deck_summary(data)

shuffle_deck_return(a, data) == _deck_summary(data)

draw_cards_return(a, data) ==
    With(_deck_summary(data), "cards", _format_cards(Get(data, "cards", None)))

get_deck_state_return(a, data) == _deck_summary(data)

add_to_pile_return(a, data) ==
    LET pile_info == PileInfo(data, a.pile_name)
    IN  With(_deck_summary(data), "pile",
             PyDict([name |-> a.pile_name, remaining |-> Get(pile_info, "remaining", None)]))

\* draw_from_pile's result with the cards of the response left out
draw_from_pile_return_no_cards(a, data) ==
    LET pile_info == PileInfo(data, a.pile_name)
    IN  With(With(_deck_summary(data), "cards", _format_cards(None)),
             "pile",
             PyDict([name |-> a.pile_name, remaining |-> Get(pile_info, "remaining", None)]))

draw_from_pile_return(a, data) ==
    LET pile_info == PileInfo(data, a.pile_name)
    IN  With(With(_deck_summary(data), "cards", _format_cards(Get(data, "cards", None))),
             "pile",
             PyDict([name |-> a.pile_name, remaining |-> Get(pile_info, "remaining", None)]))

list_pile_cards_return(a, data) ==
    LET pile_info == PileInfo(data, a.pile_name)
    IN  With(_deck_summary(data), "pile",
             PyDict([name |-> a.pile_name,
                     remaining |-> Get(pile_info, "remaining", None),
                     cards |-> _format_cards(Get(pile_info, "cards", None))]))

shuffle_pile_return(a, data) ==
    LET pile_info == PileInfo(data, a.pile_name)
    IN  With(_deck_summary(data), "pile",
             PyDict([name |-> a.pile_name, remaining |-> Get(pile_info, "remaining", None)]))

return_cards_return(a, data) ==
    LET pile_name == Param(a, "pile_name", None)
        pile_info == PileInfo(data, pile_name)
    IN  IF Truthy(pile_name) /\ "piles" \in DOMAIN data.v
        THEN With(_deck_summary(data), "pile",
                  PyDict([name |-> pile_name, remaining |-> Get(pile_info, "remaining", None)]))
        ELSE _deck_summary(data)

-----------------------------------------------------------------------------
(* Invocation: the binding of keyword arguments to a tool's signature *)

Tools == {"create_deck", "create_partial_deck", "shuffle_deck", "draw_cards",
          "get_deck_state", "add_to_pile", "draw_from_pile", "list_pile_cards",
          "shuffle_pile", "return_cards"}

PileTools == {"add_to_pile", "draw_from_pile", "list_pile_cards", "shuffle_pile"}

\* parameters without a default
Required(o) ==
    CASE o = "create_deck"         -> {}
      [] o = "create_partial_deck" -> {"cards"}
      [] o = "shuffle_deck"        -> {"deck_id"}
      [] o = "draw_cards"          -> {"deck_id"}
      [] o = "get_deck_state"      -> {"deck_id"}
      [] o = "add_to_pile"         -> {"deck_id", "pile_name", "cards"}
      [] o = "draw_from_pile"      -> {"deck_id", "pile_name"}
      [] o = "list_pile_cards"     -> {"deck_id", "pile_name"}
      [] o = "shuffle_pile"        -> {"deck_id", "pile_name"}
      [] o = "return_cards"        -> {"deck_id"}

\* parameters with a default
Optional(o) ==
    CASE o = "create_deck"         -> {"deck_count"}
      [] o = "shuffle_deck"        -> {"shuffle_remaining_only"}
      [] o = "draw_cards"          -> {"count"}
      [] o = "draw_from_pile"      -> {"cards", "count", "position"}
      [] o = "return_cards"        -> {"pile_name", "cards"}
      [] OTHER                     -> {}

\* Python binds the keywords before the body runs
Binds(o, a) == Required(o) \subseteq DOMAIN a /\ DOMAIN a \subseteq Required(o) \cup Optional(o)

TypeError == [type |-> "TypeError", msg |-> "missing or unexpected keyword argument"]

\* the tool o called with keyword arguments a, up to its await
Body(o, a) ==
    CASE o = "create_deck"         -> create_deck(a)
      [] o = "create_partial_deck" -> create_partial_deck(a)
      [] o = "shuffle_deck"        -> shuffle_deck(a)
      [] o = "draw_cards"          -> draw_cards(a)
      [] o = "get_deck_state"      -> get_deck_state(a)
      [] o = "add_to_pile"         -> add_to_pile(a)
      [] o = "draw_from_pile"      -> draw_from_pile(a)
      [] o = "list_pile_cards"     -> list_pile_cards(a)
      [] o = "shuffle_pile"        -> shuffle_pile(a)
      [] o = "return_cards"        -> return_cards(a)

ToolCall(o, a) == IF Binds(o, a) THEN Body(o, a) ELSE Raised(TypeError)

\* the tool o from the value of its await on
ToolReturn(o, a, data) ==
    CASE o = "create_deck"         -> create_deck_return(a, data)
      [] o = "create_partial_deck" -> create_partial_deck_return(a, data)
      [] o = "shuffle_deck"        -> shuffle_deck_return(a, data)
      [] o = "draw_cards"          -> draw_cards_return(a, data)
      [] o = "get_deck_state"      -> get_deck_state_return(a, data)
      [] o = "add_to_pile"         -> add_to_pile_return(a, data)
      [] o = "draw_from_pile"      -> draw_from_pile_return(a, data)
      [] o = "list_pile_cards"     -> list_pile_cards_return(a, data)
      [] o = "shuffle_pile"        -> shuffle_pile_return(a, data)
      [] o = "return_cards"        -> return_cards_return(a, data)

-----------------------------------------------------------------------------
(* Actions *)

\* Invoke behind a lock: a call starts only when no other call is in its round trip
Invoke_serialized(c, o, a) ==
    LET out == ToolCall(o, a)
    IN  /\ pc[c] = "idle"
        /\ \A other \in DOMAIN pc \ {c} : pc[other] \notin {"awaiting", "replied"}
        /\ op' = [op EXCEPT ![c] = o]
        /\ args' = [args EXCEPT ![c] = a]
        /\ IF out.kind = "raise"
           THEN /\ pc' = [pc EXCEPT ![c] = "failed"]
                /\ error' = [error EXCEPT ![c] = out.exc]
                /\ UNCHANGED <<request, attempts>>
           ELSE /\ pc' = [pc EXCEPT ![c] = "awaiting"]
                /\ request' = [request EXCEPT ![c] = _api_get_request(out.path, out.params)]
                /\ attempts' = [attempts EXCEPT ![c] = @ + 1]
                /\ UNCHANGED error
        /\ UNCHANGED <<response, result, remote, client>>

\* call c runs tool o with keyword arguments a until it raises or awaits the GET
Invoke(c, o, a) ==
    LET out == ToolCall(o, a)
    IN  /\ pc[c] = "idle"
        /\ op' = [op EXCEPT ![c] = o]
        /\ args' = [args EXCEPT ![c] = a]
        /\ IF out.kind = "raise"
           THEN /\ pc' = [pc EXCEPT ![c] = "failed"]
                /\ error' = [error EXCEPT ![c] = out.exc]
                /\ UNCHANGED <<request, attempts>>
           ELSE /\ pc' = [pc EXCEPT ![c] = "awaiting"]
                /\ request' = [request EXCEPT ![c] = _api_get_request(out.path, out.params)]
                /\ attempts' = [attempts EXCEPT ![c] = @ + 1]
                /\ UNCHANGED error
        /\ UNCHANGED <<response, result, remote, client>>

\* call c resumes with the outcome of its GET: _api_get raises or returns the
\* JSON, and the tool reshapes it
Resume(c) ==
    LET got == _api_get(response[c])
    IN  /\ pc[c] = "replied"
        /\ IF got.kind = "raise"
           THEN /\ pc' = [pc EXCEPT ![c] = "failed"]
                /\ error' = [error EXCEPT ![c] = got.exc]
                /\ UNCHANGED result
           ELSE /\ pc' = [pc EXCEPT ![c] = "returned"]
                /\ result' = [result EXCEPT ![c] = ToolReturn(op[c], args[c], got.value)]
                /\ UNCHANGED error
        /\ UNCHANGED <<op, args, request, attempts, response, remote, client>>

-----------------------------------------------------------------------------
(* The arguments the callers pass *)

MaxPileNameLen == 32

Absent == [t |-> "absent"]

\* the keyword arguments of a call: the fields of r that are passed at all
Keywords(r) == [k \in {k \in DOMAIN r : r[k] # Absent} |-> r[k]]

DeckIds == {Absent, None, PyStr(<<>>), PyStr(<<"d">>), PyStr(<<"/","d">>)}

PileNames ==
    {None, PyStr(<<>>), PyStr(<<"p">>), PyStr(<<"a"," ","b">>),
     PyStr(<<"v","a","l","i","d","_","P","i","l","e","-","1">>),
     PyStr([i \in 1..MaxPileNameLen |-> "a"]),
     PyStr([i \in 1..(MaxPileNameLen + 1) |-> "a"])}

CardLists ==
    {None, PyList(<<>>),
     PyList(<<PyStr(<<"A","S">>)>>),
     PyList(<<PyStr(<<" ","a","s">>), PyStr(<<"0","h"," ">>)>>),
     PyList(<<PyStr(<<"A","X">>)>>),
     PyList(<<PyStr(<<"K","D">>), PyStr(<<"1","S">>)>>),
     PyList(<<PyStr(<<"A">>)>>)}

Counts == {None, PyInt(-1), PyInt(0), PyInt(1), PyInt(5), PyInt(52), PyInt(53)}

DeckCounts == {Absent, PyInt(-1), PyInt(0), PyInt(1), PyInt(2), PyInt(20), PyInt(21)}

Positions ==
    {Absent, PyStr(S_top), PyStr(S_bottom), PyStr(S_random),
     PyStr(<<"T","O","P">>), PyStr(<<"B","o","t","t","o","m">>),
     PyStr(<<"R","a","n","d","o","m">>), PyStr(<<"s","i","d","e">>)}

Flags == {Absent, PyBool(TRUE), PyBool(FALSE)}

ArgsOf(o) ==
    CASE o = "create_deck" ->
            {Keywords(r) : r \in [deck_count : DeckCounts, shuffled : Flags]}
      [] o = "create_partial_deck" ->
            {Keywords(r) : r \in [cards : CardLists]}
      [] o = "shuffle_deck" ->
            {Keywords(r) : r \in [deck_id : DeckIds, shuffle_remaining_only : Flags]}
      [] o = "draw_cards" ->
            {Keywords(r) : r \in [deck_id : DeckIds, count : (Counts \ {None}) \cup {Absent}]}
      [] o = "get_deck_state" ->
            {Keywords(r) : r \in [deck_id : DeckIds]}
      [] o = "add_to_pile" ->
            {Keywords(r) : r \in [deck_id : DeckIds, pile_name : PileNames, cards : CardLists]}
      [] o = "draw_from_pile" ->
            {Keywords(r) : r \in [deck_id : DeckIds \ {Absent}, pile_name : PileNames,
                                  cards : CardLists \cup {Absent},
                                  count : Counts \cup {Absent},
                                  position : Positions]}
      [] o = "list_pile_cards" ->
            {Keywords(r) : r \in [deck_id : DeckIds, pile_name : PileNames]}
      [] o = "shuffle_pile" ->
            {Keywords(r) : r \in [deck_id : DeckIds, pile_name : PileNames]}
      [] o = "return_cards" ->
            {Keywords(r) : r \in [deck_id : DeckIds, pile_name : PileNames \cup {Absent},
                                  cards : CardLists \cup {Absent}]}

-----------------------------------------------------------------------------
(* What the remote round trip can end with *)

Exc(e) == [exc |-> e, status |-> 0, body |-> None]
Http(status, body) == [exc |-> "", status |-> status, body |-> body]

CardJson(code, value, suit) ==
    PyDict([code |-> PyStr(code), value |-> PyStr(<<value>>), suit |-> PyStr(<<suit>>),
            image |-> PyStr(<<"https://deckofcardsapi.com/static/img/">> \o code),
            images |-> EmptyDict])

DeckJson ==
    [success |-> PyBool(TRUE), deck_id |-> PyStr(<<"d">>),
     remaining |-> PyInt(42), shuffled |-> PyBool(FALSE)]

Without(f, keys) == [k \in DOMAIN f \ keys |-> f[k]]

SomeCards == PyList(<<CardJson(<<"A","S">>, "ACE", "SPADES"), CardJson(<<"0","H">>, "10", "HEARTS")>>)

\* JSON objects the service may answer with: failures, full answers, and
\* answers with fields left out or null
JsonBodies ==
    {PyDict([success |-> PyBool(FALSE), error |-> PyStr(<<"Deck ID does not exist.">>)]),
     PyDict([success |-> PyBool(FALSE)]),
     PyDict(DeckJson),
     PyDict(DeckJson @@ [deck_count |-> PyInt(1)]),
     PyDict(Without(DeckJson, {"success"})),
     PyDict(Without(DeckJson, {"deck_id"})),
     PyDict(Without(DeckJson, {"remaining"})),
     PyDict(Without(DeckJson, {"shuffled"})),
     PyDict([deck_id |-> None] @@ DeckJson),
     PyDict(DeckJson @@ [cards |-> SomeCards]),
     PyDict(Without(DeckJson, {"shuffled"}) @@
            [piles |-> PyDict(<<"p">> :> PyDict([remaining |-> PyInt(2)]))]),
     PyDict(Without(DeckJson, {"shuffled"}) @@
            [piles |-> PyDict(<<"p">> :> PyDict([remaining |-> PyInt(2), cards |-> SomeCards]))]),
     PyDict(Without(DeckJson, {"shuffled"}) @@
            [cards |-> SomeCards, piles |-> PyDict(<<"q">> :> PyDict([remaining |-> PyInt(0)]))])}

RemoteOutcomes ==
    {Exc("ConnectError"), Exc("ReadError"), Exc("ConnectTimeout"), Exc("ReadTimeout"),
     Http(404, None), Http(500, PyDict(DeckJson)), Http(200, None)}
    \cup {Http(200, b) : b \in JsonBodies}

\* the GET of call c ends, with any outcome
RemoteReply(c) ==
    /\ pc[c] = "awaiting"
    /\ \E r \in RemoteOutcomes :
          response' = [response EXCEPT ![c] = r]
    /\ pc' = [pc EXCEPT ![c] = "replied"]
    /\ UNCHANGED <<op, args, request, attempts, result, error, remote, client>>

-----------------------------------------------------------------------------
(* The tool server, one call at a time *)

Calls == {"c1"}

NoRemote == [decks |-> <<>>]

Init ==
    /\ pc = [c \in Calls |-> "idle"]
    /\ op = [c \in Calls |-> ""]
    /\ args = [c \in Calls |-> <<>>]
    /\ request = [c \in Calls |-> None]
    /\ attempts = [c \in Calls |-> 0]
    /\ response = [c \in Calls |-> None]
    /\ result = [c \in Calls |-> None]
    /\ error = [c \in Calls |-> None]
    /\ remote = NoRemote
    /\ client = "none"

Call_create_deck(c) == pc[c] = "idle" /\ \E a \in ArgsOf("create_deck") : Invoke(c, "create_deck", a)
Call_create_partial_deck(c) == pc[c] = "idle" /\ \E a \in ArgsOf("create_partial_deck") : Invoke(c, "create_partial_deck", a)
Call_shuffle_deck(c) == pc[c] = "idle" /\ \E a \in ArgsOf("shuffle_deck") : Invoke(c, "shuffle_deck", a)
Call_draw_cards(c) == pc[c] = "idle" /\ \E a \in ArgsOf("draw_cards") : Invoke(c, "draw_cards", a)
Call_get_deck_state(c) == pc[c] = "idle" /\ \E a \in ArgsOf("get_deck_state") : Invoke(c, "get_deck_state", a)
Call_add_to_pile(c) == pc[c] = "idle" /\ \E a \in ArgsOf("add_to_pile") : Invoke(c, "add_to_pile", a)
Call_draw_from_pile(c) == pc[c] = "idle" /\ \E a \in ArgsOf("draw_from_pile") : Invoke(c, "draw_from_pile", a)
Call_list_pile_cards(c) == pc[c] = "idle" /\ \E a \in ArgsOf("list_pile_cards") : Invoke(c, "list_pile_cards", a)
Call_shuffle_pile(c) == pc[c] = "idle" /\ \E a \in ArgsOf("shuffle_pile") : Invoke(c, "shuffle_pile", a)
Call_return_cards(c) == pc[c] = "idle" /\ \E a \in ArgsOf("return_cards") : Invoke(c, "return_cards", a)

Next ==
    \E c \in Calls :
        \/ Call_create_deck(c)
        \/ Call_create_partial_deck(c)
        \/ Call_shuffle_deck(c)
        \/ Call_draw_cards(c)
        \/ Call_get_deck_state(c)
        \/ Call_add_to_pile(c)
        \/ Call_draw_from_pile(c)
        \/ Call_list_pile_cards(c)
        \/ Call_shuffle_pile(c)
        \/ Call_return_cards(c)
        \/ RemoteReply(c)
        \/ Resume(c)

Spec == Init /\ [][Next]_vars

-----------------------------------------------------------------------------
(* src/utils.py: the pile-name grammar *)

PileNameChars == Range(Lowercase) \cup Range(Uppercase) \cup Digits \cup {"_", "-"}

\* PILE_NAME_PATTERN.fullmatch(pile_name) for ^[A-Za-z0-9_-]{1,32}$
PILE_NAME_PATTERN_fullmatch(pile_name) ==
    /\ 1 <= Len(pile_name.v) /\ Len(pile_name.v) <= MaxPileNameLen
    /\ Range(pile_name.v) \subseteq PileNameChars

_validate_pile_name(pile_name) ==
    IF ~PILE_NAME_PATTERN_fullmatch(pile_name)
    THEN Raised(ToolError("Pile names must be 1-32 characters of letters, numbers, hyphen, or underscore."))
    ELSE Returned(pile_name)

-----------------------------------------------------------------------------
(* Vocabulary of the properties *)

Invoked(c) == pc[c] # "idle" /\ op[c] \in Tools /\ Binds(op[c], args[c])

\* the call failed before its GET was answered, with the exception e
FailedWith(c, e) == pc[c] = "failed" /\ error[c] = e

\* the messages of the argument errors the tools raise themselves
ArgumentErrorMessages ==
    {"Deck count must be between 1 and 20.",
     "Provide at least one card code to build a partial deck.",
     "A deck_id is required to shuffle a deck.",
     "A deck_id is required to draw cards.",
     "Count must be between 1 and 52.",
     "A deck_id is required to check deck state.",
     "A deck_id is required to add cards to a pile.",
     "A pile_name is required.",
     "Provide at least one card code to add to the pile.",
     "A deck_id is required to draw from a pile.",
     "Position must be one of: 'top', 'bottom', or 'random'.",
     "Provide either specific card codes or a count.",
     "Provide either specific card codes or a count, not both.",
     "Drawing specific cards is only supported from the top of the pile.",
     "Specify count when drawing from the bottom or randomly.",
     "A deck_id is required to inspect a pile.",
     "A deck_id is required to shuffle a pile.",
     "A deck_id is required to return cards.",
     "Invalid card code: must be exactly two characters.",
     "Invalid card code: value/suit not allowed.",
     "Pile names must be 1-32 characters of letters, numbers, hyphen, or underscore."}

ArgumentError(c) ==
    pc[c] = "failed" /\ error[c].type = "ToolError" /\ error[c].msg \in ArgumentErrorMessages

\* a card code as the specification defines a well-formed one
WellFormedCode(raw) ==
    LET code == Upper(Strip(raw.v))
    IN  Len(code) = 2 /\ code[1] \in allowed_values /\ code[2] \in allowed_suits

HasMalformedCode(cards) ==
    cards.t = "list" /\ \E i \in DOMAIN cards.v : ~WellFormedCode(cards.v[i])

PositionOf(a) == Lower(Param(a, "position", PyStr(S_top)).v)

\* the locally detectable input errors of a call of tool o with arguments a
LocalInputError(o, a) ==
    \/ "deck_id" \in Required(o) /\ ~Truthy(a.deck_id)
    \/ "pile_name" \in Required(o) /\ ~Truthy(a.pile_name)
    \/ o = "create_deck" /\ Param(a, "deck_count", PyInt(1)).v \notin 1..20
    \/ o = "draw_cards" /\ Param(a, "count", PyInt(1)).v \notin 1..52
    \/ o = "draw_from_pile" /\ Param(a, "count", None) # None /\ Param(a, "count", None).v \notin 1..52
    \/ o \in {"create_partial_deck", "add_to_pile"} /\ ~Truthy(a.cards)
    \/ HasMalformedCode(Param(a, "cards", None))
    \/ o = "draw_from_pile" /\ PositionOf(a) \notin {S_top, S_bottom, S_random}
    \/ o = "draw_from_pile" /\ Truthy(Param(a, "cards", None)) /\ Param(a, "count", None) # None
    \/ o = "draw_from_pile" /\ PositionOf(a) \in {S_bottom, S_random} /\ Param(a, "count", None) = None

-----------------------------------------------------------------------------
(* C1: a call whose arguments carry a locally detectable input error       *)
(* (missing or empty deck_id or pile_name, count or deck_count out of      *)
(* range, malformed card code, invalid position, contradictory or          *)
(* incomplete cards/count combination) has failed without issuing any GET, *)
(* and every call that failed with an argument error has issued no GET.    *)
C1_NoRemoteCallOnLocalError ==
    \A c \in DOMAIN pc :
        /\ Invoked(c) /\ LocalInputError(op[c], args[c])
              => pc[c] = "failed" /\ attempts[c] = 0 /\ request[c] = None
        /\ ArgumentError(c) => attempts[c] = 0 /\ request[c] = None /\ response[c] = None

C1_Witness ==
    \E c \in DOMAIN pc :
        /\ Invoked(c) /\ op[c] = "return_cards" /\ Truthy(args[c].deck_id)
        /\ HasMalformedCode(Param(args[c], "cards", None))
        /\ ArgumentError(c) /\ attempts[c] = 0

(* C2: a pile operation called with a pile_name that does not match the    *)
(* grammar (1 to 32 letters, digits, hyphens, underscores) fails before    *)
(* any GET, and a matching name appears unchanged in the path of the GET.  *)
C2_PileNameGrammarEnforced ==
    \A c \in DOMAIN pc :
        LET a == args[c]
            pile_name == Param(a, "pile_name", None)
            pileOp == \/ op[c] \in PileTools
                      \/ op[c] = "return_cards" /\ pile_name # None
        IN  Invoked(c) /\ pileOp /\ pile_name.t = "str" /\ Truthy(a.deck_id)
            => /\ _validate_pile_name(pile_name).kind = "raise"
                    => pc[c] = "failed" /\ attempts[c] = 0
               /\ _validate_pile_name(pile_name).kind = "return" /\ request[c] # None
                    => LET prefix == a.deck_id.v \o Slash \o S_pile \o Slash \o pile_name.v \o Slash
                       IN  SubSeq(request[c].path, 1, Len(prefix)) = prefix

(* C3: draw_from_pile with a usable deck_id and pile_name fails with an    *)
(* argument error, without any GET, when (a) a non-empty cards list and a  *)
(* count are both given, (b) the position is bottom or random and no count *)
(* is given, (c) a non-empty cards list is given and the position is       *)
(* bottom or random.                                                       *)
C3_DrawFromPileRejects ==
    \A c \in DOMAIN pc :
        LET a == args[c]
            cards == Param(a, "cards", None)
            count == Param(a, "count", None)
        IN  /\ Invoked(c) /\ op[c] = "draw_from_pile"
            /\ Truthy(a.deck_id) /\ Truthy(a.pile_name)
            /\ \/ Truthy(cards) /\ count # None
               \/ PositionOf(a) \in {S_bottom, S_random} /\ count = None
               \/ Truthy(cards) /\ PositionOf(a) \in {S_bottom, S_random}
            => ArgumentError(c) /\ attempts[c] = 0

C3_Witness ==
    \E c \in DOMAIN pc :
        /\ op[c] = "draw_from_pile" /\ Invoked(c)
        /\ Truthy(args[c].deck_id) /\ Truthy(args[c].pile_name)
        /\ Truthy(Param(args[c], "cards", None)) /\ ~HasMalformedCode(args[c].cards)
        /\ Param(args[c], "count", None) = None
        /\ PositionOf(args[c]) = S_random
        /\ FailedWith(c, ToolError("Drawing specific cards is only supported from the top of the pile."))

(* C4: draw_from_pile with a usable deck_id and pile_name, position top    *)
(* and neither cards nor count is not rejected locally: it issues the GET  *)
(* on the base draw path with no query parameters.                         *)
C4_DrawFromPileTopDefault ==
    \A c \in DOMAIN pc :
        LET a == args[c]
        IN  /\ Invoked(c) /\ op[c] = "draw_from_pile"
            /\ Truthy(a.deck_id) /\ Truthy(a.pile_name)
            /\ PositionOf(a) = S_top
            /\ Param(a, "cards", None) = None /\ Param(a, "count", None) = None
            => /\ attempts[c] = 1
               /\ request[c] # None
               /\ request[c].path = a.deck_id.v \o Slash \o S_pile \o Slash \o a.pile_name.v
                                        \o Slash \o S_draw \o Slash
               /\ request[c].params = None

(* C6: create_deck fails with an argument error exactly when deck_count    *)
(* (default 1) is outside 1..20, and draw_cards with a non-empty deck_id   *)
(* exactly when count (default 1) is outside 1..52; a value in range       *)
(* always reaches the GET, which carries it.                               *)
C6_RangeChecks ==
    \A c \in DOMAIN pc :
        LET a == args[c]
            deck_count == Param(a, "deck_count", PyInt(1))
            count == Param(a, "count", PyInt(1))
        IN  /\ Invoked(c) /\ op[c] = "create_deck"
               => /\ ArgumentError(c) <=> deck_count.v \notin 1..20
                  /\ deck_count.v \in 1..20
                       => /\ attempts[c] = 1
                          /\ request[c].path = S_new \o Slash
                          /\ request[c].params = PyDict("deck_count" :> deck_count)
            /\ Invoked(c) /\ op[c] = "draw_cards" /\ Truthy(a.deck_id)
               => /\ ArgumentError(c) <=> count.v \notin 1..52
                  /\ count.v \in 1..52
                       => /\ attempts[c] = 1
                          /\ request[c].path = a.deck_id.v \o Slash \o S_draw \o Slash
                          /\ request[c].params = PyDict("count" :> count)

C6_Witness ==
    \E c \in DOMAIN pc :
        /\ Invoked(c) /\ op[c] = "create_deck" /\ "deck_count" \notin DOMAIN args[c]
        /\ pc[c] = "returned" /\ attempts[c] = 1
        /\ request[c].params = PyDict("deck_count" :> PyInt(1))

\* the outcomes of the GET that are failures: a transport error, a timeout,
\* a status outside 2xx, a body that is not JSON, a JSON body with success false
TimedOut(r) == r.exc \in {"ConnectTimeout", "ReadTimeout"}

FailureOutcome(r) ==
    \/ r.exc # ""
    \/ r.status \notin 200..299
    \/ r.body = None
    \/ Get(r.body, "success", None) = PyBool(FALSE)

(* C8: a call that passed local validation issues exactly one GET; when    *)
(* the GET ends in a transport failure, a timeout, a non-2xx status, a     *)
(* body that is not JSON or a body with success false, the call fails with *)
(* a ToolError (a timeout with the timeout message, another transport      *)
(* failure with the unreachable message), returns no result and issues no  *)
(* further GET.                                                            *)
C8_SingleAttemptNoRetry ==
    \A c \in DOMAIN pc :
        /\ attempts[c] <= 1
        /\ pc[c] \in {"awaiting", "replied", "returned"} => attempts[c] = 1
        /\ pc[c] \in {"returned", "failed"} /\ response[c] # None /\ FailureOutcome(response[c])
              => /\ pc[c] = "failed"
                 /\ attempts[c] = 1
                 /\ result[c] = None
                 /\ error[c].type = "ToolError"
                 /\ TimedOut(response[c])
                       <=> error[c].msg = "Deck of Cards API did not respond in time."
                 /\ response[c].exc # "" /\ ~TimedOut(response[c])
                       <=> error[c].msg = "Unable to reach the Deck of Cards API: <exc>"

C8_Witness ==
    \E c \in DOMAIN pc :
        /\ pc[c] = "failed" /\ attempts[c] = 1 /\ result[c] = None
        /\ response[c] # None /\ response[c].exc = "ReadTimeout"
        /\ error[c] = ToolError("Deck of Cards API did not respond in time.")

(* C9: every result a tool returns carries a string deck_id, an integer    *)
(* remaining >= 0 and a boolean shuffled, and a non-null remaining for the *)
(* pile it reports, whatever the successful remote answer contained.       *)
C9_ResultsFullyFilled ==
    \A c \in DOMAIN pc :
        pc[c] = "returned" /\ op[c] \in Tools
        => LET r == result[c].v
           IN  /\ {"deck_id", "remaining", "shuffled"} \subseteq DOMAIN r
               /\ r.deck_id.t = "str"
               /\ r.remaining.t = "int" /\ r.remaining.v >= 0
               /\ r.shuffled.t = "bool"
               /\ "pile" \in DOMAIN r => r.pile.v.remaining.t = "int"

-----------------------------------------------------------------------------
(* _normalize_cards on its own: every list of at most MaxCards raw codes   *)
(* over CodeChars, each at most MaxRawLen characters long                  *)

MaxCards == 2
MaxRawLen == CardCodeLen + 1

CodeChars == {"a", "S", " "}

RawCodes == UNION {[1..n -> CodeChars] : n \in 0..MaxRawLen}

Call_normalize_cards(c) ==
    /\ pc[c] = "idle"
    /\ \E n \in 0..MaxCards : \E l \in [1..n -> RawCodes] : \E absent \in {n = 0, FALSE} :
          LET cards == IF absent THEN None ELSE PyList([i \in 1..n |-> PyStr(l[i])])
              out == _normalize_cards(cards)
          IN  /\ op' = [op EXCEPT ![c] = "_normalize_cards"]
              /\ args' = [args EXCEPT ![c] = [cards |-> cards]]
              /\ IF out.kind = "raise"
                 THEN /\ pc' = [pc EXCEPT ![c] = "failed"]
                      /\ error' = [error EXCEPT ![c] = out.exc]
                      /\ UNCHANGED result
                 ELSE /\ pc' = [pc EXCEPT ![c] = "returned"]
                      /\ result' = [result EXCEPT ![c] = out.value]
                      /\ UNCHANGED error
    /\ UNCHANGED <<request, attempts, response, remote, client>>

NextNormalize == \E c \in Calls : Call_normalize_cards(c)

SpecNormalize == Init /\ [][NextNormalize]_vars

-----------------------------------------------------------------------------
(* The remote deck service, as far as the round trips below use it: new    *)
(* decks, drawing from a deck, adding drawn cards to a pile.  Its state is *)
(* a function from deck ids to decks; a deck has the cards still in it     *)
(* (top first), the cards drawn and in no pile, and its piles (each a      *)
(* sequence, latest addition last).                                        *)

DeckSize == 52

Ranks == <<"A", "2", "3", "4", "5", "6", "7", "8", "9", "0", "J", "Q", "K">>
Suits == <<"S", "D", "C", "H">>

\* the codes of one deck in its unshuffled order
StandardDeck == [i \in 1..DeckSize |-> <<Ranks[((i - 1) % 13) + 1], Suits[((i - 1) \div 13) + 1]>>]

RECURSIVE Decks(_)
Decks(n) == IF n = 0 THEN <<>> ELSE StandardDeck \o Decks(n - 1)

Reverse(s) == [i \in DOMAIN s |-> s[Len(s) + 1 - i]]

\* s.split(sep): the k-th segment lies between the (k-1)-th and the k-th separator
Split(s, sep) ==
    LET seps == {i \in DOMAIN s : s[i] = sep}
        SepAt(k) == IF k = 0 THEN 0
                    ELSE IF k > Cardinality(seps) THEN Len(s) + 1
                    ELSE CHOOSE i \in seps : Cardinality({j \in seps : j < i}) = k - 1
    IN  [k \in 1..(Cardinality(seps) + 1) |-> SubSeq(s, SepAt(k - 1) + 1, SepAt(k) - 1)]

\* the segments of the URL after the base
Route(url) ==
    LET NonEmpty(x) == x # <<>>
    IN  SelectSeq(Split(Tail(url), "/"), NonEmpty)

RemoteValue(code) ==
    CASE code[1] = "A" -> "ACE" [] code[1] = "J" -> "JACK" [] code[1] = "Q" -> "QUEEN"
      [] code[1] = "K" -> "KING" [] code[1] = "0" -> "10" [] OTHER -> code[1]

RemoteSuit(code) ==
    CASE code[2] = "S" -> "SPADES" [] code[2] = "D" -> "DIAMONDS"
      [] code[2] = "C" -> "CLUBS" [] code[2] = "H" -> "HEARTS" [] OTHER -> code[2]

RemoteCard(code) == CardJson(code, RemoteValue(code), RemoteSuit(code))

IdDigits == <<"1", "2", "3", "4", "5", "6", "7", "8", "9">>

\* the id the service gives the next deck
NewDeckId(rem) == <<"d", IdDigits[Cardinality(DOMAIN rem.decks) + 1]>>

RemoteError(msg) == PyDict([success |-> PyBool(FALSE), error |-> PyStr(<<msg>>)])

\* the count-only pile map of a deck
PileCounts(deck) == PyDict([p \in DOMAIN deck.piles |-> PyDict([remaining |-> PyInt(Len(deck.piles[p]))])])

\* new/ and new/shuffle/
RemoteNew(rem, params, shuffle) ==
    LET deck_count == IF params # None /\ "deck_count" \in DOMAIN params.v
                      THEN params.v["deck_count"].v ELSE 1
        id == NewDeckId(rem)
        ordered == Decks(deck_count)
    IN  {[remote |-> [rem EXCEPT !.decks = (id :> [cards |-> cards, drawn |-> <<>>,
                                                   piles |-> <<>>, shuffled |-> shuffle]) @@ @],
          body |-> PyDict([success |-> PyBool(TRUE), deck_id |-> PyStr(id),
                            remaining |-> PyInt(Len(cards)), shuffled |-> PyBool(shuffle)])]
         : cards \in IF shuffle THEN {ordered, Reverse(ordered)} ELSE {ordered}}

\* <deck_id>/draw/?count=n
RemoteDraw(rem, id, params) ==
    LET deck == rem.decks[id]
        count == IF params # None /\ "count" \in DOMAIN params.v THEN params.v["count"].v ELSE 1
        drawn == SubSeq(deck.cards, 1, count)
        left == SubSeq(deck.cards, count + 1, Len(deck.cards))
    IN  IF count > Len(deck.cards)
        THEN {[remote |-> rem, body |-> RemoteError("Not enough cards remaining to draw.")]}
        ELSE {[remote |-> [rem EXCEPT !.decks[id].cards = left, !.decks[id].drawn = @ \o drawn],
               body |-> PyDict([success |-> PyBool(TRUE), deck_id |-> PyStr(id),
                                cards |-> PyList([i \in DOMAIN drawn |-> RemoteCard(drawn[i])]),
                                remaining |-> PyInt(Len(left)),
                                shuffled |-> PyBool(deck.shuffled)])]}

\* which occurrence of its value the i-th element of s is
Occurrence(s, i) == Cardinality({j \in 1..i : s[j] = s[i]})

\* how many times x occurs in s
Occurrences(s, x) == Cardinality({i \in DOMAIN s : s[i] = x})

\* the elements of s at the indices in I, in order
AtIndices(s, I) ==
    [k \in 1..Cardinality(I) |-> s[CHOOSE i \in I : Cardinality({j \in I : j < i}) = k - 1]]

\* the elements of s that are not in the set gone
Remaining(s, gone) == LET Stays(x) == x \notin gone IN SelectSeq(s, Stays)

\* the deck after the cards named by `codes` have gone to pile p, in order: a
\* drawn card moves as often as it is named, at most as often as it has been
\* drawn; a card held by another pile moves out of that pile
MoveToPile(deck, p, codes) ==
    LET pile == IF p \in DOMAIN deck.piles THEN deck.piles[p] ELSE <<>>
        others == DOMAIN deck.piles \ {p}
        moved == {i \in DOMAIN codes : Occurrence(codes, i) <= Occurrences(deck.drawn, codes[i])}
        kept == {i \in DOMAIN deck.drawn : Occurrence(deck.drawn, i) > Occurrences(codes, deck.drawn[i])}
        taken == {i \in DOMAIN codes \ moved : \E q \in others : codes[i] \in Range(deck.piles[q])}
    IN  [deck EXCEPT !.drawn = AtIndices(deck.drawn, kept),
                     !.piles = (p :> (pile \o AtIndices(codes, moved \cup taken)))
                               @@ [q \in others |-> Remaining(deck.piles[q], {codes[i] : i \in taken})]]

\* <deck_id>/pile/<pile>/add/?cards=...
RemotePileAdd(rem, id, p, params) ==
    LET codes == IF params # None /\ "cards" \in DOMAIN params.v
                 THEN Split(params.v["cards"].v, ",") ELSE <<>>
        deck == MoveToPile(rem.decks[id], p, codes)
    IN  {[remote |-> [rem EXCEPT !.decks[id] = deck],
          body |-> PyDict([success |-> PyBool(TRUE), deck_id |-> PyStr(id),
                           remaining |-> PyInt(Len(deck.cards)),
                           piles |-> PileCounts(deck)])]}

\* the cards parameter of a request, or <<>> when it has none
CodesOf(params) ==
    IF params # None /\ "cards" \in DOMAIN params.v THEN Split(params.v["cards"].v, ",") ELSE <<>>

\* the count parameter of a request, 1 when it has none
CountOf(params) ==
    IF params # None /\ "count" \in DOMAIN params.v THEN params.v["count"].v ELSE 1

\* the answer that carries the deck's summary and the given further fields
RemoteOk(rem, id, deck, more) ==
    [remote |-> [rem EXCEPT !.decks[id] = deck],
     body |-> PyDict([success |-> PyBool(TRUE), deck_id |-> PyStr(id),
                      remaining |-> PyInt(Len(deck.cards))] @@ more)]

\* <deck_id>/return/?cards=...: the drawn cards named, or all drawn cards, go back to the deck
RemoteReturn(rem, id, params) ==
    LET deck == rem.decks[id]
        codes == CodesOf(params)
        back == IF codes = <<>> THEN DOMAIN deck.drawn
                ELSE {i \in DOMAIN deck.drawn : Occurrence(deck.drawn, i) <= Occurrences(codes, deck.drawn[i])}
    IN  {RemoteOk(rem, id,
                  [deck EXCEPT !.cards = @ \o AtIndices(deck.drawn, back),
                               !.drawn = AtIndices(deck.drawn, DOMAIN deck.drawn \ back)],
                  [shuffled |-> PyBool(deck.shuffled)])}

\* <deck_id>/pile/<pile>/return/?cards=...: the pile's cards named, or all of them, go back to the deck
RemotePileReturn(rem, id, p, params) ==
    LET deck == rem.decks[id]
        pile == IF p \in DOMAIN deck.piles THEN deck.piles[p] ELSE <<>>
        codes == CodesOf(params)
        back == IF codes = <<>> THEN DOMAIN pile
                ELSE {i \in DOMAIN pile : Occurrence(pile, i) <= Occurrences(codes, pile[i])}
        after == [deck EXCEPT !.cards = @ \o AtIndices(pile, back),
                              !.piles = (p :> AtIndices(pile, DOMAIN pile \ back)) @@ @]
    IN  {RemoteOk(rem, id, after, [shuffled |-> PyBool(deck.shuffled), piles |-> PileCounts(after)])}

\* the sets of indices a draw of count cards from a pile may take: the last
\* added at the top, the first added at the bottom, any at random
PileDrawChoices(pile, count, position) ==
    IF position = S_bottom THEN {1..count}
    ELSE IF position = S_random THEN {I \in SUBSET DOMAIN pile : Cardinality(I) = count}
    ELSE {(Len(pile) - count + 1)..Len(pile)}

\* <deck_id>/pile/<pile>/draw/[bottom/|random/]?count=n or ?cards=...
RemotePileDraw(rem, id, p, position, params) ==
    LET deck == rem.decks[id]
        pile == IF p \in DOMAIN deck.piles THEN deck.piles[p] ELSE <<>>
        codes == CodesOf(params)
        named == {i \in DOMAIN pile : Occurrence(pile, i) <= Occurrences(codes, pile[i])}
        choices == IF codes # <<>> THEN {named} ELSE PileDrawChoices(pile, CountOf(params), position)
        Answer(I) ==
            LET taken == IF position = S_bottom THEN AtIndices(pile, I) ELSE Reverse(AtIndices(pile, I))
                after == [deck EXCEPT !.drawn = @ \o taken,
                                      !.piles = (p :> AtIndices(pile, DOMAIN pile \ I)) @@ @]
            IN  RemoteOk(rem, id, after,
                         [cards |-> PyList([i \in DOMAIN taken |-> RemoteCard(taken[i])]),
                          piles |-> PileCounts(after)])
    IN  IF codes = <<>> /\ CountOf(params) > Len(pile)
        THEN {[remote |-> rem, body |-> RemoteError("Not enough cards remaining to draw.")]}
        ELSE {Answer(I) : I \in choices}

\* <deck_id>/pile/<pile>/list/: the listed pile with its cards, the other piles with their counts
RemotePileList(rem, id, p) ==
    LET deck == rem.decks[id]
        Entry(q) == IF q = p
                    THEN PyDict([remaining |-> PyInt(Len(deck.piles[q])),
                                 cards |-> PyList([i \in DOMAIN deck.piles[q] |-> RemoteCard(deck.piles[q][i])])])
                    ELSE PyDict([remaining |-> PyInt(Len(deck.piles[q]))])
    IN  IF p \notin DOMAIN deck.piles
        THEN {[remote |-> rem, body |-> RemoteError("Pile does not exist.")]}
        ELSE {RemoteOk(rem, id, deck, [piles |-> PyDict([q \in DOMAIN deck.piles |-> Entry(q)])])}

\* <deck_id>/pile/<pile>/shuffle/: the pile in an order of the service's choosing
RemotePileShuffle(rem, id, p) ==
    LET deck == rem.decks[id]
    IN  IF p \notin DOMAIN deck.piles
        THEN {[remote |-> rem, body |-> RemoteError("Pile does not exist.")]}
        ELSE {RemoteOk(rem, id, [deck EXCEPT !.piles[p] = order], [piles |-> PileCounts(deck)])
              : order \in {deck.piles[p], Reverse(deck.piles[p])}}

\* the cards of all piles
RECURSIVE PileCards(_)
PileCards(piles) ==
    IF DOMAIN piles = {} THEN <<>>
    ELSE LET q == CHOOSE q \in DOMAIN piles : TRUE
         IN  piles[q] \o PileCards([r \in DOMAIN piles \ {q} |-> piles[r]])

\* <deck_id>/: the deck as it is
RemoteState(rem, id) ==
    {RemoteOk(rem, id, rem.decks[id], [shuffled |-> PyBool(rem.decks[id].shuffled)])}

\* <deck_id>/shuffle/[?remaining=true]: the cards left in the deck, or all of
\* the deck's cards, in an order of the service's choosing
RemoteShuffle(rem, id, params) ==
    LET deck == rem.decks[id]
        remaining_only == params # None /\ "remaining" \in DOMAIN params.v
        all == IF remaining_only THEN deck.cards
               ELSE deck.cards \o deck.drawn \o PileCards(deck.piles)
    IN  {RemoteOk(rem, id,
                  IF remaining_only
                  THEN [deck EXCEPT !.cards = order, !.shuffled = TRUE]
                  ELSE [cards |-> order, drawn |-> <<>>, piles |-> <<>>, shuffled |-> TRUE],
                  [shuffled |-> PyBool(TRUE)])
         : order \in {all, Reverse(all)}}

\* the answers the service may give to a request, each with the state it leaves
RemoteAnswers(rem, req) ==
    LET route == Route(req.url)
        n == Len(route)
    IN  IF route = <<S_new>> THEN RemoteNew(rem, req.params, FALSE)
        ELSE IF route = <<S_new, S_shuffle>> THEN RemoteNew(rem, req.params, TRUE)
        ELSE IF n = 0 \/ route[1] \notin DOMAIN rem.decks
        THEN {[remote |-> rem, body |-> RemoteError("Deck ID does not exist.")]}
        ELSE IF n = 1 THEN RemoteState(rem, route[1])
        ELSE IF n = 2 /\ route[2] = S_shuffle THEN RemoteShuffle(rem, route[1], req.params)
        ELSE IF n = 2 /\ route[2] = S_draw THEN RemoteDraw(rem, route[1], req.params)
        ELSE IF n = 2 /\ route[2] = S_return THEN RemoteReturn(rem, route[1], req.params)
        ELSE IF n = 4 /\ route[2] = S_pile /\ route[4] = S_add
        THEN RemotePileAdd(rem, route[1], route[3], req.params)
        ELSE IF n = 4 /\ route[2] = S_pile /\ route[4] = S_return
        THEN RemotePileReturn(rem, route[1], route[3], req.params)
        ELSE IF n = 4 /\ route[2] = S_pile /\ route[4] = S_draw
        THEN RemotePileDraw(rem, route[1], route[3], S_top, req.params)
        ELSE IF n = 5 /\ route[2] = S_pile /\ route[4] = S_draw /\ route[5] \in {S_bottom, S_random}
        THEN RemotePileDraw(rem, route[1], route[3], route[5], req.params)
        ELSE IF n = 4 /\ route[2] = S_pile /\ route[4] = S_list
        THEN RemotePileList(rem, route[1], route[3])
        ELSE IF n = 4 /\ route[2] = S_pile /\ route[4] = S_shuffle
        THEN RemotePileShuffle(rem, route[1], route[3])
        ELSE {[remote |-> rem, body |-> RemoteError("Not found.")]}

\* the service answers the GET of call c
RemoteServe(c) ==
    /\ pc[c] = "awaiting"
    /\ \E ans \in RemoteAnswers(remote, request[c]) :
          /\ remote' = ans.remote
          /\ response' = [response EXCEPT ![c] = Http(200, ans.body)]
    /\ pc' = [pc EXCEPT ![c] = "replied"]
    /\ UNCHANGED <<op, args, request, attempts, result, error, client>>

-----------------------------------------------------------------------------
(* Round trips against the service, as the repository's tests drive them:  *)
(* create a deck, draw n cards from a fresh single deck, add the drawn     *)
(* codes to the pile my_pile.  Each step is a call of its own.             *)

TripCalls == {"create", "draw", "add"}

my_pile == <<"m", "y", "_", "p", "i", "l", "e">>

InitRoundTrip ==
    /\ pc = [c \in TripCalls |-> "idle"]
    /\ op = [c \in TripCalls |-> ""]
    /\ args = [c \in TripCalls |-> <<>>]
    /\ request = [c \in TripCalls |-> None]
    /\ attempts = [c \in TripCalls |-> 0]
    /\ response = [c \in TripCalls |-> None]
    /\ result = [c \in TripCalls |-> None]
    /\ error = [c \in TripCalls |-> None]
    /\ remote = NoRemote
    /\ client = "generate_new_pile"

Test_create_deck ==
    /\ pc["create"] = "idle"
    /\ \E deck_count \in {Absent} \cup {PyInt(n) : n \in MinDeckCount..MaxDeckCount} :
       \E shuffled \in Flags :
          Invoke("create", "create_deck", Keywords([deck_count |-> deck_count, shuffled |-> shuffled]))

\* a fresh single deck has been created: draw count cards from it
Test_draw_cards ==
    /\ pc["create"] = "returned" /\ pc["draw"] = "idle"
    /\ result["create"].v.remaining = PyInt(DeckSize)
    /\ \E count \in MinCount..MaxCount :
          Invoke("draw", "draw_cards",
                 [deck_id |-> result["create"].v.deck_id, count |-> PyInt(count)])

\* the codes drawn go to my_pile
Test_add_to_pile ==
    /\ pc["draw"] = "returned" /\ pc["add"] = "idle"
    /\ LET drawn_cards == result["draw"].v.cards.v
           encoded_drawn_cards == PyList([i \in DOMAIN drawn_cards |-> drawn_cards[i].v.code])
       IN  Invoke("add", "add_to_pile",
                  [deck_id |-> args["draw"].deck_id, pile_name |-> PyStr(my_pile),
                   cards |-> encoded_drawn_cards])

NextRoundTrip ==
    \/ Test_create_deck
    \/ Test_draw_cards
    \/ Test_add_to_pile
    \/ \E c \in TripCalls : RemoteServe(c)
    \/ \E c \in TripCalls : Resume(c)

SpecRoundTrip == InitRoundTrip /\ [][NextRoundTrip]_vars

(* C5: for deck_count in 1..20 and either value of the shuffled flag,      *)
(* create_deck requests new/shuffle/ when the flag is true and new/        *)
(* otherwise, and returns remaining = 52 * deck_count and shuffled equal   *)
(* to the flag.                                                            *)
C5_CreateDeckShuffledFlag ==
    \A c \in DOMAIN pc :
        /\ pc[c] # "idle" /\ op[c] = "create_deck"
        /\ {"deck_count", "shuffled"} \subseteq DOMAIN args[c]
        /\ args[c].deck_count.v \in 1..20
        => /\ request[c] # None
           /\ request[c].path = IF args[c].shuffled.v
                                THEN S_new \o Slash \o S_shuffle \o Slash
                                ELSE S_new \o Slash
           /\ pc[c] = "returned"
                => /\ result[c].v.remaining = PyInt(52 * args[c].deck_count.v)
                   /\ result[c].v.shuffled = args[c].shuffled

(* C10: after draw_cards(count = n) on a fresh single deck, add_to_pile of *)
(* the n drawn codes returns piles[pile].remaining = n and the deck's      *)
(* remaining = 52 - n.                                                     *)
C10_DrawThenAddToPile ==
    pc["add"] = "returned"
    => LET n == args["draw"].count.v
           r == result["add"].v
       IN  /\ "piles" \in DOMAIN r
           /\ my_pile \in DOMAIN r.piles.v
           /\ r.piles.v[my_pile].v.remaining = PyInt(n)
           /\ r.remaining = PyInt(52 - n)

-----------------------------------------------------------------------------
(* Round trips on piles, as the repository's tests drive them: after the   *)
(* drawn codes have gone to my_pile, some of them may be transferred to    *)
(* my_pile_2, and then one more operation is called: return_cards,         *)
(* draw_from_pile, list_pile_cards or shuffle_pile.                        *)

\* the largest pile the draws, listings and transfers are tried on, and the
\* longest list of codes a return names
MaxPileCards == 3

PileCalls == TripCalls \cup {"transfer", "then"}

my_pile_2 == <<"m", "y", "_", "p", "i", "l", "e", "_", "2">>

InitPiles ==
    /\ pc = [c \in PileCalls |-> "idle"]
    /\ op = [c \in PileCalls |-> ""]
    /\ args = [c \in PileCalls |-> <<>>]
    /\ request = [c \in PileCalls |-> None]
    /\ attempts = [c \in PileCalls |-> 0]
    /\ response = [c \in PileCalls |-> None]
    /\ result = [c \in PileCalls |-> None]
    /\ error = [c \in PileCalls |-> None]
    /\ remote = NoRemote
    /\ client = "generate_new_pile"

\* cards[:k] for the k the scripts use
Prefixes(cards) ==
    {PyList(SubSeq(cards.v, 1, k)) : k \in 1..(IF Len(cards.v) < MaxPileCards THEN Len(cards.v) ELSE MaxPileCards)}

\* the codes drawn from the deck, as the scripts pass them on
encoded_drawn_cards ==
    LET drawn_cards == result["draw"].v.cards.v
    IN  PyList([i \in DOMAIN drawn_cards |-> drawn_cards[i].v.code])

\* the pile has been built and nothing else has been called since
PileBuilt == pc["add"] = "returned" /\ pc["transfer"] = "idle" /\ pc["then"] = "idle"

\* return_cards(deck_id) after a draw, with all or the first few of the drawn codes
Test_return_drawn_cards ==
    /\ pc["draw"] = "returned" /\ pc["add"] = "idle" /\ pc["then"] = "idle"
    /\ \E cards \in {Absent, None, PyList(<<>>)} \cup Prefixes(encoded_drawn_cards) :
       \E pile_name \in {Absent, None, PyStr(<<>>)} :
          Invoke("then", "return_cards",
                 Keywords([deck_id |-> args["draw"].deck_id, pile_name |-> pile_name, cards |-> cards]))

\* return_cards(deck_id, pile_name) after the pile has been built
Test_return_pile_to_deck ==
    /\ PileBuilt
    /\ \E cards \in {Absent, None, PyList(<<>>)} \cup Prefixes(args["add"].cards) :
          Invoke("then", "return_cards",
                 Keywords([deck_id |-> args["add"].deck_id, pile_name |-> PyStr(my_pile), cards |-> cards]))

\* draw_from_pile(count = k) from a pile of at most MaxPileCards cards
Test_draw_from_pile ==
    /\ PileBuilt
    /\ Len(args["add"].cards.v) <= MaxPileCards
    /\ \E k \in 1..Len(args["add"].cards.v) :
       \E position \in {Absent, PyStr(S_top), PyStr(S_bottom), PyStr(S_random)} :
          Invoke("then", "draw_from_pile",
                 Keywords([deck_id |-> args["add"].deck_id, pile_name |-> PyStr(my_pile),
                           count |-> PyInt(k), position |-> position]))

\* add_to_pile(my_pile_2, cards[:k]): cards held by my_pile go to a second pile
Test_transfer_cards_between_piles ==
    /\ PileBuilt
    /\ Len(args["add"].cards.v) <= MaxPileCards
    /\ \E cards \in Prefixes(args["add"].cards) :
          Invoke("transfer", "add_to_pile",
                 [deck_id |-> args["add"].deck_id, pile_name |-> PyStr(my_pile_2), cards |-> cards])

\* the piles have been built: one, or two after a transfer
PilesBuilt ==
    /\ pc["add"] = "returned" /\ pc["transfer"] \in {"idle", "returned"} /\ pc["then"] = "idle"
    /\ Len(args["add"].cards.v) <= MaxPileCards

Test_list_cards_in_pile ==
    /\ PilesBuilt
    /\ \E pile_name \in {my_pile} \cup (IF pc["transfer"] = "returned" THEN {my_pile_2} ELSE {}) :
          Invoke("then", "list_pile_cards",
                 [deck_id |-> args["add"].deck_id, pile_name |-> PyStr(pile_name)])

Test_shuffle_pile ==
    /\ PilesBuilt
    /\ Invoke("then", "shuffle_pile", [deck_id |-> args["add"].deck_id, pile_name |-> PyStr(my_pile)])

NextPiles ==
    \/ Test_create_deck
    \/ Test_draw_cards
    \/ pc["then"] = "idle" /\ Test_add_to_pile
    \/ Test_return_drawn_cards
    \/ Test_return_pile_to_deck
    \/ Test_draw_from_pile
    \/ Test_transfer_cards_between_piles
    \/ Test_list_cards_in_pile
    \/ Test_shuffle_pile
    \/ \E c \in PileCalls : RemoteServe(c)
    \/ \E c \in PileCalls : Resume(c)

SpecPiles == InitPiles /\ [][NextPiles]_vars

\* the codes of a list of cards of a result
CodesIn(cards) == {cards.v[i].v.code.v : i \in DOMAIN cards.v}

\* the codes my_pile was built from, in the order they were added
pile_cards == [i \in DOMAIN args["add"].cards.v |-> args["add"].cards.v[i].v]

(* C11: after n cards have been drawn from a fresh single deck (and, for   *)
(* the pile variant, moved to a pile), return_cards with no cards restores *)
(* remaining to 52 and return_cards with k of those codes gives remaining  *)
(* 52 - n + k; the cards parameter is sent only when cards are given and   *)
(* the pile path is requested only when a pile_name is given.              *)
C11_ReturnCards ==
    pc["then"] # "idle" /\ op["then"] = "return_cards"
    => LET a == args["then"]
           n == args["draw"].count.v
           cards == Param(a, "cards", None)
           pile_name == Param(a, "pile_name", None)
           k == IF Truthy(cards) THEN Len(cards.v) ELSE n
       IN  /\ request["then"] # None
           /\ request["then"].params = IF Truthy(cards) THEN PyDict("cards" :> JoinCodes(cards)) ELSE None
           /\ request["then"].path =
                 IF Truthy(pile_name)
                 THEN a.deck_id.v \o Slash \o S_pile \o Slash \o pile_name.v \o Slash \o S_return \o Slash
                 ELSE a.deck_id.v \o Slash \o S_return \o Slash
           /\ pc["then"] \in {"returned", "failed"}
                => /\ pc["then"] = "returned"
                   /\ result["then"].v.remaining = PyInt(52 - n + k)

\* two of the ten cards of a pile have gone back to the deck
C11_Witness ==
    /\ pc["then"] = "returned" /\ op["then"] = "return_cards"
    /\ pc["add"] = "returned"
    /\ Truthy(Param(args["then"], "cards", None)) /\ Len(args["then"].cards.v) = 2
    /\ args["draw"].count.v = 10
    /\ result["then"].v.remaining = PyInt(44)

(* C12: from a pile holding m cards, draw_from_pile(count = k), k <= m, at *)
(* any position returns exactly k cards whose codes are among the pile's   *)
(* contents and reports the pile's remaining as m - k; at top the cards    *)
(* are the k most recently added, at bottom the k earliest added.          *)
C12_DrawFromPileCount ==
    pc["then"] \in {"returned", "failed"} /\ op["then"] = "draw_from_pile"
    => LET m == Len(pile_cards)
           k == args["then"].count.v
           position == PositionOf(args["then"])
           r == result["then"].v
       IN  /\ pc["then"] = "returned"
           /\ Len(r.cards.v) = k
           /\ Cardinality(CodesIn(r.cards)) = k
           /\ CodesIn(r.cards) \subseteq Range(pile_cards)
           /\ r.pile.v.remaining = PyInt(m - k)
           /\ position = S_top => CodesIn(r.cards) = Range(SubSeq(pile_cards, m - k + 1, m))
           /\ position = S_bottom => CodesIn(r.cards) = Range(SubSeq(pile_cards, 1, k))

\* a random draw has returned cards that are neither the top ones nor the bottom ones
C12_Witness ==
    /\ pc["then"] = "returned" /\ op["then"] = "draw_from_pile"
    /\ PositionOf(args["then"]) = S_random
    /\ Len(pile_cards) = MaxPileCards
    /\ CodesIn(result["then"].v.cards) = {pile_cards[2]}
    /\ result["then"].v.pile.v.remaining = PyInt(MaxPileCards - 1)

\* no entry of a pile map has a cards field
CountOnly(piles) == \A q \in DOMAIN piles.v : "cards" \notin DOMAIN piles.v[q].v

(* C13: list_pile_cards returns a pile map with an entry for every pile of *)
(* the deck: the listed pile's entry has its cards (their codes the pile's *)
(* contents) and their number as remaining, every other entry is           *)
(* count-only; add_to_pile and shuffle_pile return pile maps without any   *)
(* cards field; moving cards from one pile to a second reduces the first   *)
(* pile's remaining by the number moved.                                   *)
C13_PileMaps ==
    /\ pc["then"] = "returned" /\ op["then"] = "list_pile_cards"
       => LET r == result["then"].v
              listed == args["then"].pile_name.v
              piles == remote.decks[args["then"].deck_id.v].piles
          IN  /\ "piles" \in DOMAIN r
              /\ DOMAIN r.piles.v = DOMAIN piles
              /\ \A q \in DOMAIN piles :
                    /\ r.piles.v[q].v.remaining = PyInt(Len(piles[q]))
                    /\ IF q = listed
                       THEN /\ "cards" \in DOMAIN r.piles.v[q].v
                            /\ CodesIn(r.piles.v[q].v.cards) = Range(piles[q])
                       ELSE "cards" \notin DOMAIN r.piles.v[q].v
    /\ pc["then"] = "returned" /\ op["then"] = "shuffle_pile"
       => "piles" \in DOMAIN result["then"].v /\ CountOnly(result["then"].v.piles)
    /\ pc["transfer"] = "returned"
       => /\ "piles" \in DOMAIN result["transfer"].v /\ CountOnly(result["transfer"].v.piles)
          /\ result["transfer"].v.piles.v[my_pile].v.remaining
                = PyInt(Len(pile_cards) - Len(args["transfer"].cards.v))

-----------------------------------------------------------------------------
(* Concurrent calls: the host invokes tools while other calls are in their *)
(* round trips; the calls here all go to one deck of the service.          *)

ConcurrentCalls == {"c1", "c2"}

d1 == <<"d", "1">>

\* the service holds one new deck
OneDeck ==
    [decks |-> (d1 :> [cards |-> StandardDeck, drawn |-> <<>>, piles |-> <<>>, shuffled |-> FALSE])]

InitConcurrent ==
    /\ pc = [c \in ConcurrentCalls |-> "idle"]
    /\ op = [c \in ConcurrentCalls |-> ""]
    /\ args = [c \in ConcurrentCalls |-> <<>>]
    /\ request = [c \in ConcurrentCalls |-> None]
    /\ attempts = [c \in ConcurrentCalls |-> 0]
    /\ response = [c \in ConcurrentCalls |-> None]
    /\ result = [c \in ConcurrentCalls |-> None]
    /\ error = [c \in ConcurrentCalls |-> None]
    /\ remote = OneDeck
    /\ client = "none"

ConcurrentTools == {"create_deck", "draw_cards", "shuffle_deck", "get_deck_state", "return_cards"}

ConcurrentArgs(o) ==
    CASE o = "create_deck" -> {<<>>, [deck_count |-> PyInt(21)]}
      [] o = "draw_cards" ->
            {[deck_id |-> PyStr(d1)], [deck_id |-> PyStr(d1), count |-> PyInt(2)],
             [deck_id |-> PyStr(d1), count |-> PyInt(0)], [deck_id |-> PyStr(<<>>)]}
      [] o = "shuffle_deck" ->
            {[deck_id |-> PyStr(d1)], [deck_id |-> PyStr(d1), shuffle_remaining_only |-> PyBool(TRUE)]}
      [] o = "get_deck_state" -> {[deck_id |-> PyStr(d1)], [deck_id |-> None]}
      [] o = "return_cards" ->
            {[deck_id |-> PyStr(d1)],
             [deck_id |-> PyStr(d1), cards |-> PyList(<<PyStr(<<"a","s">>)>>)],
             [deck_id |-> PyStr(d1), cards |-> PyList(<<PyStr(<<"A","X">>)>>)]}

\* the host invokes a tool in call c
ConcurrentCall(c) ==
    /\ pc[c] = "idle"
    /\ \E o \in ConcurrentTools : \E a \in ConcurrentArgs(o) : Invoke(c, o, a)

NextConcurrent ==
    \E c \in ConcurrentCalls :
        \/ ConcurrentCall(c)
        \/ RemoteServe(c)
        \/ Resume(c)

SpecConcurrent == InitConcurrent /\ [][NextConcurrent]_vars

-----------------------------------------------------------------------------
(* draw_from_pile: the position and the cards arguments *)

draw_base_path(a) == a.deck_id.v \o Slash \o S_pile \o Slash \o a.pile_name.v \o Slash \o S_draw \o Slash

(* C15: in draw_from_pile the position is compared case-insensitively and  *)
(* must resolve to top, bottom or random, otherwise the call fails with an *)
(* argument error; an accepted call requests {deck_id}/pile/{pile}/draw/   *)
(* for top, and that path followed by bottom/ or random/ exactly for the   *)
(* positions bottom and random.                                            *)
C15_DrawFromPilePosition ==
    \A c \in DOMAIN pc :
        Invoked(c) /\ op[c] = "draw_from_pile"
        /\ Truthy(args[c].deck_id) /\ Truthy(args[c].pile_name)
        => LET pos == PositionOf(args[c])
           IN  /\ pos \notin {S_top, S_bottom, S_random}
                    <=> FailedWith(c, ToolError("Position must be one of: 'top', 'bottom', or 'random'."))
               /\ pos \notin {S_top, S_bottom, S_random} => ArgumentError(c) /\ attempts[c] = 0
               /\ request[c] # None
                    => request[c].path = IF pos \in {S_bottom, S_random}
                                         THEN draw_base_path(args[c]) \o pos \o Slash
                                         ELSE draw_base_path(args[c])

\* a position written in mixed case is accepted and its segment is appended in lower case
C15_Witness ==
    \E c \in DOMAIN pc :
        /\ Invoked(c) /\ op[c] = "draw_from_pile"
        /\ "position" \in DOMAIN args[c] /\ args[c].position = PyStr(<<"B","o","t","t","o","m">>)
        /\ pc[c] = "awaiting"
        /\ request[c].path = draw_base_path(args[c]) \o S_bottom \o Slash

\* the outcome of the part of a call before its await: the exception, or the request
OutcomeIs(c, out) ==
    IF out.kind = "raise"
    THEN pc[c] = "failed" /\ attempts[c] = 0 /\ error[c] = out.exc
    ELSE attempts[c] = 1 /\ request[c] = _api_get_request(out.path, out.params)

(* C16: in draw_from_pile an empty cards list is treated exactly like an   *)
(* absent cards argument: the call with cards=[] ends with the same error, *)
(* or the same path and query parameters, as the call with cards omitted;  *)
(* with a count in 1..52 it draws by count.                                *)
C16_EmptyCardsLikeAbsent ==
    \A c \in DOMAIN pc :
        Invoked(c) /\ op[c] = "draw_from_pile"
        /\ "cards" \in DOMAIN args[c] /\ args[c].cards = PyList(<<>>)
        => OutcomeIs(c, draw_from_pile(Without(args[c], {"cards"})))

-----------------------------------------------------------------------------
(* Concurrent calls share nothing *)

=============================================================================
